---- MODULE Spec2Model ----
(***************************************************************************)
(* talebook-mcp: the JSON-RPC dispatcher MCPService.handle_request         *)
(* (src/src/mcp_service.py) and the transport endpoints of the             *)
(* multi-transport server (src/src/multi_transport_server.py): /simple,    *)
(* /stream, /true-stream, /poll and the WebSocket loop /ws.                *)
(*                                                                         *)
(* A JSON value is a tagged record; a Python dict is a function from its   *)
(* keys, so that a missing member and a null member are different values.  *)
(***************************************************************************)
EXTENDS Integers, Sequences, FiniteSets, TLC

VARIABLES
    endpoint,        \* the endpoint that served the last request ("none" at start)
    request,         \* what that endpoint was given (a raw body, or a decoded value)
    response,        \* what it answered
    wsState,         \* the WebSocket connection: "none", "open", "client_gone", "closed"
    polling_queues,  \* the module-level dict of multi_transport_server.py
    first,           \* history: the first exchange of the dispatcher since startup
    firstTools,      \* history: the tools of the dispatcher's first list-tools result
    toolFailure,     \* the exception the try block of get_books_count raises ("none": it completes)
    tasks,           \* the requests in flight, each with the locals of its coroutine
    ws               \* one WebSocket connection: the loop's position, the texts read, the texts sent

vars == <<endpoint, request, response, wsState, polling_queues, first, firstTools, toolFailure, tasks, ws>>

-----------------------------------------------------------------------------
(* Bounds of the model *)

\* how many values uuid.uuid4() is drawn from
NumSessionIds == 2
\* list-tools results the history counts (the last value stands for "or more")
MaxListed == 2
\* requests in flight at the same time
MaxTasks == 2
\* texts one WebSocket connection reads
MaxWsMsgs == 3

-----------------------------------------------------------------------------
(* JSON values as Python sees them after json.loads *)

JNull == [t |-> "null"]
JNum(n) == [t |-> "num", n |-> n]
JStr(s) == [t |-> "str", s |-> s]
JArr(a) == [t |-> "arr", a |-> a]
JObj(o) == [t |-> "obj", o |-> o]

EmptyDict == JObj(<<>>)

\* type(v).__name__
PyTypeName(v) ==
    CASE v.t = "null" -> "NoneType"
      [] v.t = "num" -> "int"
      [] v.t = "str" -> "str"
      [] v.t = "arr" -> "list"
      [] v.t = "obj" -> "dict"

\* str(v), as an f-string renders it (containers occur only empty here)
PyStr(v) ==
    CASE v.t = "null" -> "None"
      [] v.t = "num" -> ToString(v.n)
      [] v.t = "str" -> v.s
      [] v.t = "arr" -> "[]"
      [] v.t = "obj" -> "{}"

\* d.get(k) and d.get(k, default) of a dict d
DictGet(d, k) == IF k \in DOMAIN d.o THEN d.o[k] ELSE JNull
DictGetDefault(d, k, default) == IF k \in DOMAIN d.o THEN d.o[k] ELSE default

\* the AttributeError of v.get(...) on a value that is no dict
AttributeError(v) ==
    [exc |-> "AttributeError",
     msg |-> "'" \o PyTypeName(v) \o "' object has no attribute 'get'"]

\* json.loads of a raw body or WebSocket text
json_loads(body) ==
    CASE body.raw = "json" -> [ok |-> body.v]
      [] body.raw = "text" ->
            [exc |-> "JSONDecodeError",
             msg |-> "Expecting property name enclosed in double quotes: line 1 column 2 (char 1)"]
      [] body.raw = "empty" ->
            [exc |-> "JSONDecodeError",
             msg |-> "Expecting value: line 1 column 1 (char 0)"]

-----------------------------------------------------------------------------
(* The tool and the session record *)

\* uuid.uuid4(): a random draw; the code keeps no record of the values issued
SessionIds == {"uuid-" \o ToString(i) : i \in 1..NumSessionIds}

\* the try block returns the count; the except branch returns the error text
get_books_count(arguments) ==
    LET books_count == 1
    IN IF toolFailure = "none"
       THEN <<[type |-> "text", text |-> "Current books count: " \o ToString(books_count)]>>
       ELSE <<[type |-> "text", text |-> "Error getting books count: " \o toolFailure]>>

\* a variant that lists the tool once more after the first listing
service_list_tools_growing ==
    LET tool == [name |-> "get_books_count",
                 description |-> "Get the current count of books in the collection",
                 inputSchema |-> [type |-> "object", properties |-> <<>>, required |-> <<>>]]
    IN IF firstTools.count = 0 THEN <<tool>> ELSE <<tool, tool>>

\* a variant that lists a second tool, which no branch of the handler calls
service_list_tools_with_other ==
    <<[name |-> "get_books_count",
       description |-> "Get the current count of books in the collection",
       inputSchema |-> [type |-> "object", properties |-> <<>>, required |-> <<>>]],
      [name |-> "other_tool",
       description |-> "Another tool",
       inputSchema |-> [type |-> "object", properties |-> <<>>, required |-> <<>>]]>>

\* MCPService.list_tools, dumped by model_dump(exclude_none=True)
service_list_tools ==
    <<[name |-> "get_books_count",
       description |-> "Get the current count of books in the collection",
       inputSchema |-> [type |-> "object", properties |-> <<>>, required |-> <<>>]]>>

\* a variant that declares no capabilities
create_initialization_options_no_capabilities(session_id) ==
    [protocolVersion |-> "2024-11-05",
     capabilities |-> <<>>,
     serverInfo |-> [name |-> "talebook-mcp", version |-> "1.0.0"],
     sessionId |-> session_id]

create_initialization_options(session_id) ==
    [protocolVersion |-> "2024-11-05",
     capabilities |-> [tools |-> <<>>],
     serverInfo |-> [name |-> "talebook-mcp", version |-> "1.0.0"],
     sessionId |-> session_id]

-----------------------------------------------------------------------------
(* Responses *)

Returned(envelope) == [kind |-> "return", status |-> 0, body |-> envelope]
Raised(e) == [kind |-> "raise", status |-> 0, body |-> e]

-----------------------------------------------------------------------------
(* MCPService.handle_request *)

\* a variant that renders the id as text (1 becomes "1", null becomes "None")
service_request_id_as_text(request_data) == JStr(PyStr(DictGet(request_data, "id")))

\* request_id = request_data.get("id")
service_request_id(request_data) == DictGet(request_data, "id")

\* a variant that takes the name with params["name"]: a KeyError when missing
service_call_tool_name_required(request_id, params) ==
    IF params.t # "obj"
    THEN [jsonrpc |-> "2.0", id |-> request_id,
          error |-> [code |-> -32603,
                     message |-> "Internal error: " \o AttributeError(params).msg]]
    ELSE IF "name" \notin DOMAIN params.o
    THEN [jsonrpc |-> "2.0", id |-> request_id,
          error |-> [code |-> -32603, message |-> "Internal error: 'name'"]]
    ELSE LET tool_name == params.o["name"]
             arguments == DictGetDefault(params, "arguments", EmptyDict)
         IN IF tool_name = JStr("get_books_count")
            THEN [jsonrpc |-> "2.0", id |-> request_id,
                  result |-> [content |->
                      <<[type |-> "text", text |-> get_books_count(arguments)[1].text]>>]]
            ELSE [jsonrpc |-> "2.0", id |-> request_id,
                  error |-> [code |-> -32601,
                             message |-> "Unknown tool: " \o PyStr(tool_name)]]

\* the branch for method == "tools/call"
service_call_tool(request_id, params) ==
    IF params.t # "obj"
    THEN [jsonrpc |-> "2.0", id |-> request_id,
          error |-> [code |-> -32603,
                     message |-> "Internal error: " \o AttributeError(params).msg]]
    ELSE LET tool_name == DictGet(params, "name")
             arguments == DictGetDefault(params, "arguments", EmptyDict)
         IN IF tool_name = JStr("get_books_count")
            THEN [jsonrpc |-> "2.0", id |-> request_id,
                  result |-> [content |->
                      <<[type |-> "text", text |-> get_books_count(arguments)[1].text]>>]]
            ELSE [jsonrpc |-> "2.0", id |-> request_id,
                  error |-> [code |-> -32601,
                             message |-> "Unknown tool: " \o PyStr(tool_name)]]

\* a variant that serves nothing but initialize until a first request was served
handle_request_after_first(request_data, session_id) ==
    IF request_data.t # "obj"
    THEN Raised(AttributeError(request_data))
    ELSE LET method == DictGet(request_data, "method")
             request_id == service_request_id(request_data)
             params == DictGetDefault(request_data, "params", EmptyDict)
         IN Returned(
              IF method = JStr("initialize")
              THEN [jsonrpc |-> "2.0", id |-> request_id,
                    result |-> create_initialization_options(session_id)]
              ELSE IF first.req.raw = "none"
              THEN [jsonrpc |-> "2.0", id |-> request_id,
                    error |-> [code |-> -32603, message |-> "Internal error: not initialized"]]
              ELSE IF method = JStr("tools/list")
              THEN [jsonrpc |-> "2.0", id |-> request_id,
                    result |-> [tools |-> service_list_tools]]
              ELSE IF method = JStr("tools/call")
              THEN service_call_tool(request_id, params)
              ELSE [jsonrpc |-> "2.0", id |-> request_id,
                    error |-> [code |-> -32601,
                               message |-> "Method not found: " \o PyStr(method)]])

handle_request(request_data, session_id) ==
    IF request_data.t # "obj"
    THEN Raised(AttributeError(request_data))
    ELSE LET method == DictGet(request_data, "method")
             request_id == service_request_id(request_data)
             params == DictGetDefault(request_data, "params", EmptyDict)
         IN Returned(
              IF method = JStr("initialize")
              THEN [jsonrpc |-> "2.0", id |-> request_id,
                    result |-> create_initialization_options(session_id)]
              ELSE IF method = JStr("tools/list")
              THEN [jsonrpc |-> "2.0", id |-> request_id,
                    result |-> [tools |-> service_list_tools]]
              ELSE IF method = JStr("tools/call")
              THEN service_call_tool(request_id, params)
              ELSE [jsonrpc |-> "2.0", id |-> request_id,
                    error |-> [code |-> -32601,
                               message |-> "Method not found: " \o PyStr(method)]])

-----------------------------------------------------------------------------
(* The transport endpoints of multi_transport_server.py *)

JSONResponse(content, status_code) == [kind |-> "http", status |-> status_code, body |-> content]
\* the one chunk a StreamingResponse yields (the status line is 200)
Chunk(content) == [kind |-> "http", status |-> 200, body |-> content]
\* websocket.send_text(json.dumps(response)), and websocket.close() with nothing sent
WsSend(content) == [kind |-> "ws_send", status |-> 0, body |-> content]
WsClose == [kind |-> "ws_close", status |-> 0, body |-> <<>>]

\* what the endpoints list of a tool: name and description
transport_tools ==
    <<[name |-> "get_books_count",
       description |-> "Get the current count of books in the collection"]>>

\* websocket_endpoint: one message of the loop
ws_list_methods == {JStr("tools/list"), JStr("mcp:list-tools")}
ws_call_methods == {JStr("tools/call"), JStr("mcp:call-tool")}

\* the envelope built for a decoded request, or the exception raised on the way
websocket_process(request_data) ==
    IF request_data.t # "obj"
    THEN AttributeError(request_data)
    ELSE LET method == DictGet(request_data, "method")
         IN IF method \in ws_list_methods
            THEN [jsonrpc |-> "2.0", id |-> DictGet(request_data, "id"),
                  result |-> [tools |-> transport_tools]]
            ELSE IF method \in ws_call_methods
            THEN LET params == DictGetDefault(request_data, "params", EmptyDict)
                 IN IF params.t # "obj"
                    THEN AttributeError(params)
                    ELSE LET tool_name == DictGet(params, "name")
                         IN IF tool_name = JStr("get_books_count")
                            THEN [jsonrpc |-> "2.0", id |-> DictGet(request_data, "id"),
                                  result |-> [content |->
                                      <<[type |-> "text",
                                         text |-> get_books_count(EmptyDict)[1].text]>>]]
                            ELSE [jsonrpc |-> "2.0", id |-> DictGet(request_data, "id"),
                                  error |-> [code |-> -32601,
                                             message |-> "Unknown tool: " \o PyStr(tool_name)]]
            ELSE [jsonrpc |-> "2.0", id |-> DictGet(request_data, "id"),
                  error |-> [code |-> -32601, message |-> "Method not found"]]

\* one iteration of the loop of websocket_endpoint, for the text received
websocket_message(data) ==
    LET loaded == json_loads(data)
    IN IF "exc" \in DOMAIN loaded
       THEN WsClose
       ELSE LET built == websocket_process(loaded.ok)
            IN IF "exc" \in DOMAIN built THEN WsClose ELSE WsSend(built)

\* handle_simple_http
simple_list_methods == {JStr("tools/list"), JStr("mcp:list-tools")}
simple_call_methods == {JStr("tools/call"), JStr("mcp:call-tool")}

\* the envelope built for a decoded request, or the exception raised on the way
simple_process(request_data, session_id) ==
    IF request_data.t # "obj"
    THEN AttributeError(request_data)
    ELSE LET method == DictGet(request_data, "method")
         IN IF method = JStr("initialize")
            THEN [jsonrpc |-> "2.0", id |-> DictGet(request_data, "id"),
                  result |-> [protocolVersion |-> "2024-11-05",
                              capabilities |-> [tools |-> <<>>],
                              serverInfo |-> [name |-> "talebook-mcp", version |-> "1.0.0"],
                              sessionId |-> session_id]]
            ELSE IF method \in simple_list_methods
            THEN [jsonrpc |-> "2.0", id |-> DictGet(request_data, "id"),
                  result |-> [tools |-> transport_tools]]
            ELSE IF method \in simple_call_methods
            THEN LET params == DictGetDefault(request_data, "params", EmptyDict)
                 IN IF params.t # "obj"
                    THEN AttributeError(params)
                    ELSE LET tool_name == DictGet(params, "name")
                         IN IF tool_name = JStr("get_books_count")
                            THEN [jsonrpc |-> "2.0", id |-> DictGet(request_data, "id"),
                                  result |-> [content |->
                                      <<[type |-> "text",
                                         text |-> get_books_count(EmptyDict)[1].text]>>]]
                            ELSE [jsonrpc |-> "2.0", id |-> DictGet(request_data, "id"),
                                  error |-> [code |-> -32601,
                                             message |-> "Unknown tool: " \o PyStr(tool_name)]]
            ELSE [jsonrpc |-> "2.0", id |-> DictGet(request_data, "id"),
                  error |-> [code |-> -32601, message |-> "Method not found"]]

\* the except branch of handle_simple_http
handle_simple_http_except(e) ==
    JSONResponse([jsonrpc |-> "2.0", error |-> [code |-> -32603, message |-> e.msg]], 500)

handle_simple_http(body, session_id) ==
    IF body.raw = "empty"
    THEN JSONResponse([error |-> "No request body"], 400)
    ELSE LET loaded == json_loads(body)
         IN IF "exc" \in DOMAIN loaded
            THEN handle_simple_http_except(loaded)
            ELSE LET built == simple_process(loaded.ok, session_id)
                 IN IF "exc" \in DOMAIN built
                    THEN handle_simple_http_except(built)
                    ELSE JSONResponse(built, 200)

\* handle_http_stream
stream_list_methods == {JStr("tools/list"), JStr("mcp:list-tools")}
stream_call_methods == {JStr("tools/call"), JStr("mcp:call-tool")}

\* the envelope built for a decoded request, or the exception raised on the way
stream_process(request_data) ==
    IF request_data.t # "obj"
    THEN AttributeError(request_data)
    ELSE LET method == DictGet(request_data, "method")
         IN IF method \in stream_list_methods
            THEN [jsonrpc |-> "2.0", id |-> DictGet(request_data, "id"),
                  result |-> [tools |-> transport_tools]]
            ELSE IF method \in stream_call_methods
            THEN LET params == DictGetDefault(request_data, "params", EmptyDict)
                 IN IF params.t # "obj"
                    THEN AttributeError(params)
                    ELSE LET tool_name == DictGet(params, "name")
                         IN IF tool_name = JStr("get_books_count")
                            THEN [jsonrpc |-> "2.0", id |-> DictGet(request_data, "id"),
                                  result |-> [content |->
                                      <<[type |-> "text",
                                         text |-> get_books_count(EmptyDict)[1].text]>>]]
                            ELSE [jsonrpc |-> "2.0", id |-> DictGet(request_data, "id"),
                                  error |-> [code |-> -32601,
                                             message |-> "Unknown tool: " \o PyStr(tool_name)]]
            ELSE [jsonrpc |-> "2.0", id |-> DictGet(request_data, "id"),
                  error |-> [code |-> -32601, message |-> "Method not found"]]

\* the except branch of handle_http_stream
handle_http_stream_except(e) ==
    JSONResponse([jsonrpc |-> "2.0", error |-> [code |-> -32603, message |-> e.msg]], 500)

handle_http_stream(body) ==
    IF body.raw = "empty"
    THEN JSONResponse([error |-> "No request body"], 400)
    ELSE LET loaded == json_loads(body)
         IN IF "exc" \in DOMAIN loaded
            THEN handle_http_stream_except(loaded)
            ELSE LET built == stream_process(loaded.ok)
                 IN IF "exc" \in DOMAIN built
                    THEN handle_http_stream_except(built)
                    ELSE JSONResponse(built, 200)

\* handle_true_http_stream.generate_response
true_stream_list_methods == {JStr("tools/list"), JStr("mcp:list-tools")}
true_stream_call_methods == {JStr("tools/call"), JStr("mcp:call-tool")}

\* the envelope built for a decoded request, or the exception raised on the way
true_stream_process(request_data) ==
    IF request_data.t # "obj"
    THEN AttributeError(request_data)
    ELSE LET method == DictGet(request_data, "method")
         IN IF method \in true_stream_list_methods
            THEN [jsonrpc |-> "2.0", id |-> DictGet(request_data, "id"),
                  result |-> [tools |-> transport_tools]]
            ELSE IF method \in true_stream_call_methods
            THEN LET params == DictGetDefault(request_data, "params", EmptyDict)
                 IN IF params.t # "obj"
                    THEN AttributeError(params)
                    ELSE LET tool_name == DictGet(params, "name")
                         IN IF tool_name = JStr("get_books_count")
                            THEN [jsonrpc |-> "2.0", id |-> DictGet(request_data, "id"),
                                  result |-> [content |->
                                      <<[type |-> "text",
                                         text |-> get_books_count(EmptyDict)[1].text]>>]]
                            ELSE [jsonrpc |-> "2.0", id |-> DictGet(request_data, "id"),
                                  error |-> [code |-> -32601,
                                             message |-> "Unknown tool: " \o PyStr(tool_name)]]
            ELSE [jsonrpc |-> "2.0", id |-> DictGet(request_data, "id"),
                  error |-> [code |-> -32601, message |-> "Method not found"]]

\* the except branch of generate_response
generate_response_except(e) ==
    Chunk([jsonrpc |-> "2.0", error |-> [code |-> -32603, message |-> e.msg]])

generate_response(body) ==
    IF body.raw = "empty"
    THEN Chunk([jsonrpc |-> "2.0",
                error |-> [code |-> -32700, message |-> "Parse error: No request body"]])
    ELSE LET loaded == json_loads(body)
         IN IF "exc" \in DOMAIN loaded
            THEN generate_response_except(loaded)
            ELSE LET built == true_stream_process(loaded.ok)
                 IN IF "exc" \in DOMAIN built
                    THEN generate_response_except(built)
                    ELSE JSONResponse(built, 200)

\* handle_long_polling
\* a variant of the list that knows the path-style name only
poll_list_methods_path_only == {JStr("tools/list")}
poll_list_methods == {JStr("tools/list"), JStr("mcp:list-tools")}
poll_call_methods == {JStr("tools/call"), JStr("mcp:call-tool")}

\* the envelope built for a decoded request, or the exception raised on the way
poll_process(request_data) ==
    IF request_data.t # "obj"
    THEN AttributeError(request_data)
    ELSE LET method == DictGet(request_data, "method")
         IN IF method \in poll_list_methods
            THEN [jsonrpc |-> "2.0", id |-> DictGet(request_data, "id"),
                  result |-> [tools |-> transport_tools]]
            ELSE IF method \in poll_call_methods
            THEN LET params == DictGetDefault(request_data, "params", EmptyDict)
                 IN IF params.t # "obj"
                    THEN AttributeError(params)
                    ELSE LET tool_name == DictGet(params, "name")
                         IN IF tool_name = JStr("get_books_count")
                            THEN [jsonrpc |-> "2.0", id |-> DictGet(request_data, "id"),
                                  result |-> [content |->
                                      <<[type |-> "text",
                                         text |-> get_books_count(EmptyDict)[1].text]>>]]
                            ELSE [jsonrpc |-> "2.0", id |-> DictGet(request_data, "id"),
                                  error |-> [code |-> -32601,
                                             message |-> "Unknown tool: " \o PyStr(tool_name)]]
            ELSE [jsonrpc |-> "2.0", id |-> DictGet(request_data, "id"),
                  error |-> [code |-> -32601, message |-> "Method not found"]]

\* the except branch of handle_long_polling
handle_long_polling_except(e) ==
    JSONResponse([jsonrpc |-> "2.0", error |-> [code |-> -32603, message |-> e.msg]], 500)

handle_long_polling(body) ==
    IF body.raw = "empty"
    THEN JSONResponse([error |-> "No request body"], 400)
    ELSE LET loaded == json_loads(body)
         IN IF "exc" \in DOMAIN loaded
            THEN handle_long_polling_except(loaded)
            ELSE LET built == poll_process(loaded.ok)
                 IN IF "exc" \in DOMAIN built
                    THEN handle_long_polling_except(built)
                    ELSE JSONResponse(built, 200)

-----------------------------------------------------------------------------
(* The inputs *)

IdValues == {JNull, JNum(1), JStr("a")}
CallMethods == {JStr("tools/call"), JStr("mcp:call-tool")}
OtherMethods ==
    {JStr("initialize"), JStr("tools/list"), JStr("mcp:list-tools"), JStr("foo/bar")}
\* params of a request that calls no tool
PlainParams == {JNull, EmptyDict}
ParamsValues ==
    {JNull, JArr(<<>>), EmptyDict,
     JObj([name |-> JStr("get_books_count")]),
     JObj([name |-> JStr("get_books_count"), arguments |-> EmptyDict]),
     JObj([name |-> JStr("get_books_count"), arguments |-> JNull]),
     JObj([name |-> JStr("other_tool")])}

\* a member that may be missing: the set of dicts over one optional key
Member(k, values) == {<<>>} \cup {(k :> v) : v \in values}

\* every id with every method; a call-tool method with every params
Envelopes ==
    {JObj(("jsonrpc" :> JStr("2.0")) @@ i @@ m @@ p) :
        i \in Member("id", IdValues),
        m \in Member("method", OtherMethods),
        p \in Member("params", PlainParams)}
    \cup
    {JObj(("jsonrpc" :> JStr("2.0")) @@ i @@ ("method" :> m) @@ p) :
        i \in Member("id", IdValues),
        m \in CallMethods,
        p \in Member("params", ParamsValues)}

\* decoded values that are no key-value map
NonMaps == {JArr(<<>>), JNum(5)}

Decoded == Envelopes \cup NonMaps

\* what the dispatcher is given where its history is kept: every method and
\* params, with the id missing or a number
DispatcherInputs ==
    {d \in Decoded : d.t = "obj" => ("id" \in DOMAIN d.o => d.o["id"] = JNum(1))}

Bodies ==
    {[raw |-> "empty"], [raw |-> "text"]} \cup {[raw |-> "json", v |-> v] : v \in Decoded}

-----------------------------------------------------------------------------
(* The state machine *)

NoRequest == [raw |-> "none"]
NoResponse == [kind |-> "none", status |-> 0, body |-> <<>>]
NoExchange == [req |-> NoRequest, resp |-> NoResponse]
NoTools == [count |-> 0, tools |-> <<>>]

\* the slots of the requests in flight; a slot with no request
Tasks == 1..MaxTasks
IdleTask ==
    [pc |-> "idle", ep |-> "none", wire |-> NoRequest, body |-> NoRequest, resp |-> NoResponse]
\* no WebSocket connection was accepted yet
NoConnection == [pc |-> "none", recv |-> <<>>, sent |-> <<>>]

Init ==
    /\ endpoint = "none"
    /\ request = NoRequest
    /\ response = NoResponse
    /\ wsState = "none"
    /\ polling_queues = <<>>
    /\ first = NoExchange
    /\ firstTools = NoTools
    /\ toolFailure = "none"
    /\ tasks = [t \in Tasks |-> IdleTask]
    /\ ws = NoConnection

\* a caller awaits mcp_service.handle_request(request_data)
CallService ==
    /\ \E request_data \in Decoded, session_id \in SessionIds :
          /\ endpoint' = "service"
          /\ request' = [raw |-> "json", v |-> request_data]
          /\ response' = handle_request(request_data, session_id)
    /\ UNCHANGED <<wsState, polling_queues, first, firstTools, toolFailure, tasks, ws>>

\* POST /simple
PostSimple ==
    /\ \E body \in Bodies, session_id \in SessionIds :
          /\ endpoint' = "/simple"
          /\ request' = body
          /\ response' = handle_simple_http(body, session_id)
    /\ UNCHANGED <<wsState, polling_queues, first, firstTools, toolFailure, tasks, ws>>

\* POST /stream
PostStream ==
    /\ \E body \in Bodies :
          /\ endpoint' = "/stream"
          /\ request' = body
          /\ response' = handle_http_stream(body)
    /\ UNCHANGED <<wsState, polling_queues, first, firstTools, toolFailure, tasks, ws>>

\* POST /true-stream
PostTrueStream ==
    /\ \E body \in Bodies :
          /\ endpoint' = "/true-stream"
          /\ request' = body
          /\ response' = generate_response(body)
    /\ UNCHANGED <<wsState, polling_queues, first, firstTools, toolFailure, tasks, ws>>

\* POST /poll
PostPoll ==
    /\ \E body \in Bodies :
          /\ endpoint' = "/poll"
          /\ request' = body
          /\ response' = handle_long_polling(body)
    /\ UNCHANGED <<wsState, polling_queues, first, firstTools, toolFailure, tasks, ws>>

\* a client connects to /ws: websocket.accept()
WsConnect ==
    /\ wsState # "open"
    /\ wsState' = "open"
    /\ UNCHANGED <<endpoint, request, response, polling_queues, first, firstTools, toolFailure, tasks, ws>>

\* the loop reads one text message, answers it or closes the connection
WsMessage ==
    /\ wsState = "open"
    /\ \E data \in Bodies :
          LET answer == websocket_message(data)
          IN /\ endpoint' = "/ws"
             /\ request' = data
             /\ response' = answer
             /\ wsState' = IF answer.kind = "ws_send" THEN "open" ELSE "closed"
    /\ UNCHANGED <<polling_queues, first, firstTools, toolFailure, tasks, ws>>

\* the client goes away: receive_text raises WebSocketDisconnect
WsDisconnect ==
    /\ wsState = "open"
    /\ wsState' = "client_gone"
    /\ UNCHANGED <<endpoint, request, response, polling_queues, first, firstTools, toolFailure, tasks, ws>>

Next ==
    \/ CallService
    \/ PostSimple
    \/ PostStream
    \/ PostTrueStream
    \/ PostPoll
    \/ WsConnect
    \/ WsMessage
    \/ WsDisconnect

Spec == Init /\ [][Next]_vars

\* The dispatcher alone, with the history of its first exchange and of its
\* first list-tools result: a caller awaits mcp_service.handle_request
DispatchTracked ==
    /\ \E request_data \in DispatcherInputs, session_id \in SessionIds :
          LET answer == handle_request(request_data, session_id)
              body == [raw |-> "json", v |-> request_data]
          IN /\ endpoint' = "service"
             /\ request' = body
             /\ response' = answer
             /\ first' = IF first = NoExchange
                          THEN [req |-> body, resp |-> answer]
                          ELSE first
             /\ firstTools' =
                   IF /\ answer.kind = "return"
                      /\ "result" \in DOMAIN answer.body
                      /\ "tools" \in DOMAIN answer.body.result
                   THEN [count |-> IF firstTools.count < MaxListed
                                   THEN firstTools.count + 1
                                   ELSE MaxListed,
                         tools |-> IF firstTools.count = 0
                                   THEN answer.body.result.tools
                                   ELSE firstTools.tools]
                   ELSE firstTools
    /\ UNCHANGED <<wsState, polling_queues, toolFailure, tasks, ws>>

NextDispatcher ==
    \/ DispatchTracked

SpecDispatcher == Init /\ [][NextDispatcher]_vars

-----------------------------------------------------------------------------
(* The tool handler failing *)

\* str(e) of the exception the try block of get_books_count may raise. No
\* statement of the block fails on any request; the exception comes from
\* the environment (logger.info through a raising filter, MemoryError).
TryBodyErrors == {"filter failed"}

\* the try block starts or stops raising; the exchange on record is dropped,
\* so that the one on record was always served under toolFailure
ToolBodyFault ==
    /\ \E f \in {"none"} \cup TryBodyErrors :
          /\ f # toolFailure
          /\ toolFailure' = f
    /\ endpoint' = "none"
    /\ request' = NoRequest
    /\ response' = NoResponse
    /\ UNCHANGED <<wsState, polling_queues, first, firstTools, tasks, ws>>

NextToolFailure ==
    \/ ToolBodyFault
    \/ CallService
    \/ PostSimple
    \/ PostStream
    \/ PostTrueStream
    \/ PostPoll
    \/ WsConnect
    \/ WsMessage
    \/ WsDisconnect

SpecToolFailure == Init /\ [][NextToolFailure]_vars

-----------------------------------------------------------------------------
(* Requests served at the same time *)

\* the response an endpoint gives to a body (the routes of the app, and the
\* direct call of the service with the decoded value)
Serve(ep, body, session_id) ==
    CASE ep = "service" -> handle_request(body.v, session_id)
      [] ep = "/simple" -> handle_simple_http(body, session_id)
      [] ep = "/stream" -> handle_http_stream(body)
      [] ep = "/true-stream" -> generate_response(body)
      [] ep = "/poll" -> handle_long_polling(body)
      [] ep = "/ws" -> websocket_message(body)

\* what the clients send while other requests are in flight
ConcurrentBodies ==
    {[raw |-> "empty"],
     [raw |-> "json", v |-> JObj([jsonrpc |-> JStr("2.0"), id |-> JNum(1),
                                  method |-> JStr("tools/list")])],
     [raw |-> "json", v |-> JObj([jsonrpc |-> JStr("2.0"), id |-> JStr("a"),
                                  method |-> JStr("tools/call"),
                                  params |-> JObj([name |-> JStr("get_books_count")])])],
     [raw |-> "json", v |-> JObj([jsonrpc |-> JStr("2.0"), id |-> JNum(1),
                                  method |-> JStr("initialize")])],
     [raw |-> "json", v |-> JObj([jsonrpc |-> JStr("2.0"), id |-> JStr("a"),
                                  method |-> JStr("tools/call"), params |-> JNull])],
     [raw |-> "json", v |-> JObj([jsonrpc |-> JStr("2.0"), method |-> JStr("foo/bar")])]}

\* a variant that queues the body it has read in the module-level dict
polling_queues_after_read_queued(t) == (t :> tasks[t].wire) @@ polling_queues

\* the module-level dict after the handler of task t has read its body: no
\* handler assigns it or stores into it
polling_queues_after_read(t) == polling_queues

\* a request arrives and its handler is entered: the coroutine of task t
\* waits at "await request.body()" (receive_text on /ws; the caller's
\* "await mcp_service.handle_request(request_data)" for the service)
TaskStart(t) ==
    /\ tasks[t].pc = "idle"
    /\ \E ep \in {"service", "/simple", "/stream", "/true-stream", "/poll", "/ws"},
          wire \in ConcurrentBodies :
          /\ ep = "service" => wire.raw = "json"
          /\ tasks' = [tasks EXCEPT ![t] = [IdleTask EXCEPT !.pc = "accepted",
                                                            !.ep = ep,
                                                            !.wire = wire]]
    /\ UNCHANGED <<endpoint, request, response, wsState, polling_queues,
                   first, firstTools, toolFailure, ws>>

\* the body arrives: it becomes the local "body" (or "data", "request_data")
\* of the coroutine
TaskRead(t) ==
    /\ tasks[t].pc = "accepted"
    /\ tasks' = [tasks EXCEPT ![t].pc = "read", ![t].body = tasks[t].wire]
    /\ polling_queues' = polling_queues_after_read(t)
    /\ UNCHANGED <<endpoint, request, response, wsState,
                   first, firstTools, toolFailure, ws>>

\* the coroutine decodes its body and builds its response from its locals;
\* "await list_tools()" and "await get_books_count({})" suspend nowhere, so
\* the event loop runs nothing else in between
TaskServe(t) ==
    /\ tasks[t].pc = "read"
    /\ \E session_id \in SessionIds :
          tasks' = [tasks EXCEPT ![t].pc = "done",
                                 ![t].resp = Serve(tasks[t].ep, tasks[t].body, session_id)]
    /\ UNCHANGED <<endpoint, request, response, wsState, polling_queues,
                   first, firstTools, toolFailure, ws>>

\* the response has left: the coroutine ends and its locals are gone
TaskRespond(t) ==
    /\ tasks[t].pc = "done"
    /\ tasks' = [tasks EXCEPT ![t] = IdleTask]
    /\ UNCHANGED <<endpoint, request, response, wsState, polling_queues,
                   first, firstTools, toolFailure, ws>>

NextConcurrent ==
    \/ \E t \in Tasks : TaskStart(t)
    \/ \E t \in Tasks : TaskRead(t)
    \/ \E t \in Tasks : TaskServe(t)
    \/ \E t \in Tasks : TaskRespond(t)

SpecConcurrent == Init /\ [][NextConcurrent]_vars

-----------------------------------------------------------------------------
(* One WebSocket connection, with what it read and what it sent *)

\* the texts a client sends on the connection
WsTexts ==
    {[raw |-> "text"],
     [raw |-> "json", v |-> JObj([jsonrpc |-> JStr("2.0"), id |-> JNum(1),
                                  method |-> JStr("tools/list")])],
     [raw |-> "json", v |-> JObj([jsonrpc |-> JStr("2.0"), id |-> JStr("a"),
                                  method |-> JStr("mcp:call-tool"),
                                  params |-> JObj([name |-> JStr("get_books_count")])])],
     [raw |-> "json", v |-> JObj([jsonrpc |-> JStr("2.0"), id |-> JNum(2),
                                  method |-> JStr("foo/bar")])],
     [raw |-> "json", v |-> JObj([jsonrpc |-> JStr("2.0"), id |-> JNum(1),
                                  method |-> JStr("tools/call"), params |-> JNull])]}

\* await websocket.accept(): a connection begins, the loop is entered
WsLoopAccept ==
    /\ ws.pc \in {"none", "closed", "gone"}
    /\ ws' = [pc |-> "receive", recv |-> <<>>, sent |-> <<>>]
    /\ wsState' = "open"
    /\ UNCHANGED <<endpoint, request, response, polling_queues,
                   first, firstTools, toolFailure, tasks>>

\* data = await websocket.receive_text()
WsLoopReceive ==
    /\ ws.pc = "receive"
    /\ Len(ws.recv) < MaxWsMsgs
    /\ \E data \in WsTexts :
          ws' = [ws EXCEPT !.pc = "process", !.recv = Append(ws.recv, data)]
    /\ UNCHANGED <<endpoint, request, response, wsState, polling_queues,
                   first, firstTools, toolFailure, tasks>>

\* the rest of the iteration: the response is built and sent and the loop
\* goes back to receive_text, or an exception leaves the loop and the
\* except branch closes the connection
WsLoopAnswer ==
    /\ ws.pc = "process"
    /\ LET data == ws.recv[Len(ws.recv)]
           answer == websocket_message(data)
       IN /\ endpoint' = "/ws"
          /\ request' = data
          /\ response' = answer
          /\ ws' = IF answer.kind = "ws_send"
                   THEN [ws EXCEPT !.pc = "receive", !.sent = Append(ws.sent, answer.body)]
                   ELSE [ws EXCEPT !.pc = "closed"]
          /\ wsState' = IF answer.kind = "ws_send" THEN "open" ELSE "closed"
    /\ UNCHANGED <<polling_queues, first, firstTools, toolFailure, tasks>>

\* the client goes away: receive_text raises WebSocketDisconnect
WsLoopClientGone ==
    /\ ws.pc = "receive"
    /\ ws' = [ws EXCEPT !.pc = "gone"]
    /\ wsState' = "client_gone"
    /\ UNCHANGED <<endpoint, request, response, polling_queues,
                   first, firstTools, toolFailure, tasks>>

NextWebSocket ==
    \/ WsLoopAccept
    \/ WsLoopReceive
    \/ WsLoopAnswer
    \/ WsLoopClientGone

SpecWebSocket == Init /\ [][NextWebSocket]_vars

-----------------------------------------------------------------------------
(* Reading the last exchange *)

TestedEndpoints == {"/simple", "/ws", "/stream", "/poll"}
HttpEndpoints == {"/simple", "/stream", "/true-stream", "/poll"}
TransportEndpoints == HttpEndpoints \cup {"/ws"}

\* the last request decoded into a key-value map
IsEnvelope == request.raw = "json" /\ request.v.t = "obj"
ReqHas(k) == k \in DOMAIN request.v.o
ReqIs(k, v) == ReqHas(k) /\ request.v.o[k] = v
ReqParamsName(name) ==
    /\ ReqHas("params")
    /\ request.v.o["params"].t = "obj"
    /\ "name" \in DOMAIN request.v.o["params"].o
    /\ request.v.o["params"].o["name"] = JStr(name)

\* the same raw body with another method name in the envelope
WithMethod(body, m) ==
    [raw |-> "json",
     v |-> JObj([k \in DOMAIN body.v.o |-> IF k = "method" THEN JStr(m) ELSE body.v.o[k]])]

IsJsonRpc(env) == "jsonrpc" \in DOMAIN env /\ env.jsonrpc = "2.0"
IsSuccess(env) == IsJsonRpc(env) /\ "result" \in DOMAIN env /\ "error" \notin DOMAIN env
IsError(env) == IsJsonRpc(env) /\ "error" \in DOMAIN env /\ "result" \notin DOMAIN env
IsErrorCode(env, code) == IsError(env) /\ env.error.code = code
\* the response carries a body for the client
Answered == response.kind \in {"return", "http", "ws_send"}

-----------------------------------------------------------------------------
(* The claims *)

\* C1: for every envelope, MCPService.handle_request answers "mcp:list-tools"
\* with the envelope it gives for "tools/list": a success envelope whose
\* result.tools is the registered tool list.
C1_ListAliasAnsweredAsToolsList ==
    (endpoint = "service" /\ IsEnvelope /\ ReqIs("method", JStr("mcp:list-tools"))) =>
        /\ \A sid \in SessionIds :
              response = Serve("service", WithMethod(request, "tools/list"), sid)
        /\ IsSuccess(response.body)
        /\ response.body.result = [tools |-> service_list_tools]

\* C2: for every envelope, MCPService.handle_request answers "mcp:call-tool"
\* with the envelope it gives for "tools/call": result.content for the
\* registered tool, error -32601 for any other name.
C2_CallAliasAnsweredAsToolsCall ==
    (endpoint = "service" /\ IsEnvelope /\ ReqIs("method", JStr("mcp:call-tool"))) =>
        /\ \A sid \in SessionIds :
              response = Serve("service", WithMethod(request, "tools/call"), sid)
        /\ ReqParamsName("get_books_count") =>
              IsSuccess(response.body) /\ "content" \in DOMAIN response.body.result
        /\ (ReqParamsName("other_tool") \/ ~ReqHas("params")) =>
              IsErrorCode(response.body, -32601)

\* C3: on /simple, /ws, /stream and /poll a "mcp:list-tools" request gets a
\* success envelope with result.tools, and a "mcp:call-tool" request for
\* get_books_count gets a success envelope with result.content, the same
\* response the path-style name gets on that endpoint.
C3_TransportAliases ==
    (endpoint \in TestedEndpoints /\ IsEnvelope) =>
        /\ ReqIs("method", JStr("mcp:list-tools")) =>
              /\ Answered
              /\ IsSuccess(response.body)
              /\ "tools" \in DOMAIN response.body.result
              /\ \A sid \in SessionIds :
                    response = Serve(endpoint, WithMethod(request, "tools/list"), sid)
        /\ (ReqIs("method", JStr("mcp:call-tool")) /\ ReqParamsName("get_books_count")) =>
              /\ Answered
              /\ IsSuccess(response.body)
              /\ "content" \in DOMAIN response.body.result
              /\ \A sid \in SessionIds :
                    response = Serve(endpoint, WithMethod(request, "tools/call"), sid)

\* C3, witness: the WebSocket loop has answered a "mcp:call-tool" request for
\* get_books_count with a result.
C3_Witness ==
    /\ endpoint = "/ws"
    /\ IsEnvelope
    /\ ReqIs("method", JStr("mcp:call-tool"))
    /\ ReqParamsName("get_books_count")
    /\ response.kind = "ws_send"
    /\ IsSuccess(response.body)

\* C4: on /simple, /ws, /stream and /poll an "initialize" request gets a
\* success envelope whose result has a sessionId and protocolVersion
\* "2024-11-05".
C4_InitializeOnEveryEndpoint ==
    (endpoint \in TestedEndpoints /\ IsEnvelope /\ ReqIs("method", JStr("initialize"))) =>
        /\ Answered
        /\ IsSuccess(response.body)
        /\ "sessionId" \in DOMAIN response.body.result
        /\ "protocolVersion" \in DOMAIN response.body.result
        /\ response.body.result.protocolVersion = "2024-11-05"

\* C6: the envelope MCPService.handle_request returns carries the id of the
\* request, whatever the method and the outcome; a request with no "id"
\* member is answered with id null.
C6_IdEchoed ==
    (endpoint = "service" /\ IsEnvelope) =>
        /\ response.kind = "return"
        /\ "id" \in DOMAIN response.body
        /\ response.body.id = (IF ReqHas("id") THEN request.v.o["id"] ELSE JNull)

\* C6, witness: a request with a string id that made the handler fail
\* inside (params null with tools/call) was answered with that id.
C6_Witness ==
    /\ endpoint = "service"
    /\ IsEnvelope
    /\ ReqIs("id", JStr("a"))
    /\ ReqIs("params", JNull)
    /\ IsErrorCode(response.body, -32603)
    /\ response.body.id = JStr("a")

\* C7: on every transport endpoint a request whose id was decoded and that
\* is not served with a result is answered with an error envelope carrying
\* that id.
C7_ErrorKeepsId ==
    (endpoint \in TransportEndpoints /\ IsEnvelope /\ ReqHas("id")
        /\ ~(Answered /\ IsSuccess(response.body))) =>
        /\ Answered
        /\ IsError(response.body)
        /\ "id" \in DOMAIN response.body
        /\ response.body.id = request.v.o["id"]

\* C8: MCPService.handle_request never raises: every decoded input gets an
\* envelope, and an input that is no key-value map, or whose params are no
\* map when a tool is called, gets error -32603.
C8_ServiceNeverRaises ==
    (endpoint = "service") =>
        /\ response.kind = "return"
        /\ request.v.t # "obj" => IsErrorCode(response.body, -32603)
        /\ (IsEnvelope /\ ReqIs("method", JStr("tools/call")) /\ ReqHas("params")
                /\ request.v.o["params"].t # "obj") =>
              IsErrorCode(response.body, -32603)

\* C9: on every HTTP endpoint a body that cannot be decoded (empty, or no
\* JSON) is answered with the error envelope of code -32700 and id null.
C9_ParseErrorEnvelope ==
    (endpoint \in HttpEndpoints /\ request.raw \in {"empty", "text"}) =>
        /\ IsErrorCode(response.body, -32700)
        /\ "id" \in DOMAIN response.body
        /\ response.body.id = JNull

\* C10: the WebSocket loop answers every message it reads with an envelope
\* and the server never closes the connection over a failing message.
C10_WsSurvivesFailure ==
    /\ wsState # "closed"
    /\ endpoint = "/ws" => (response.kind = "ws_send" /\ IsJsonRpc(response.body))

-----------------------------------------------------------------------------
(* Claims C11 to C20 *)

AllEndpoints == TransportEndpoints \cup {"service"}
CallNames == {JStr("tools/call"), JStr("mcp:call-tool")}
ListNames == {JStr("tools/list"), JStr("mcp:list-tools")}
RecognizedNames == CallNames \cup ListNames \cup {JStr("initialize")}
ReqMethodIn(names) == ReqHas("method") /\ request.v.o["method"] \in names

\* a response with the session identifier of an initialize result blanked
StripSession(resp) ==
    IF /\ resp.kind \in {"return", "http", "ws_send"}
       /\ IsSuccess(resp.body)
       /\ "sessionId" \in DOMAIN resp.body.result
    THEN [resp EXCEPT !.body.result.sessionId = ""]
    ELSE resp

\* C11: a call-tool request (either method name) for get_books_count gets a
\* success envelope whose result.content is exactly the one text item
\* "Current books count: 1", whatever params.arguments is.
C11_BooksCountContent ==
    (endpoint \in AllEndpoints /\ IsEnvelope /\ ReqMethodIn(CallNames)
        /\ ReqParamsName("get_books_count")) =>
        /\ Answered
        /\ IsSuccess(response.body)
        /\ response.body.result =
              [content |-> <<[type |-> "text", text |-> "Current books count: 1"]>>]

\* C12: a call-tool request (either method name) whose params.name is not a
\* registered tool gets error -32601 with the message "Unknown tool: <name>".
C12_UnknownToolNamed ==
    (endpoint \in AllEndpoints /\ IsEnvelope /\ ReqMethodIn(CallNames)
        /\ ReqParamsName("other_tool")) =>
        /\ Answered
        /\ IsErrorCode(response.body, -32601)
        /\ response.body.error.message = "Unknown tool: other_tool"

\* C13: a request whose method is none of the five recognized names gets
\* error -32601 with the message "Method not found: <method>", from
\* MCPService.handle_request and from every transport endpoint.
C13_MethodNotFoundNamed ==
    (endpoint \in AllEndpoints /\ IsEnvelope /\ ReqHas("method")
        /\ ~ReqMethodIn(RecognizedNames)) =>
        /\ Answered
        /\ IsErrorCode(response.body, -32601)
        /\ response.body.error.message =
              "Method not found: " \o PyStr(request.v.o["method"])

\* C14: for a decoded envelope every transport endpoint gives the envelope
\* every other endpoint gives and the one MCPService.handle_request returns,
\* session identifiers aside.
C14_TransportsInterchangeable ==
    (endpoint \in TransportEndpoints /\ IsEnvelope) =>
        \A sid \in SessionIds :
            /\ Answered
            /\ StripSession(response).body =
                  StripSession(Serve("service", request, sid)).body
            /\ \A other \in TransportEndpoints :
                  StripSession(response).body =
                      StripSession(Serve(other, request, sid)).body

\* C15: every entry of a result.tools, from any endpoint and from
\* MCPService.handle_request, has the members name, description and
\* inputSchema.
C15_ToolEntriesComplete ==
    (endpoint \in AllEndpoints /\ Answered /\ IsSuccess(response.body)
        /\ "tools" \in DOMAIN response.body.result) =>
        \A i \in 1..Len(response.body.result.tools) :
            {"name", "description", "inputSchema"}
                \subseteq DOMAIN response.body.result.tools[i]

\* C16: MCPService.handle_request (and /simple) answers every initialize
\* request with a result of exactly the members protocolVersion
\* "2024-11-05", capabilities {"tools": {}}, serverInfo {"name":
\* "talebook-mcp", "version": "1.0.0"} and sessionId; whatever the params
\* and whatever was served before, only sessionId varies. Wherever an
\* initialize request gets a result, it is this one.
C16_InitializeResultShape ==
    (endpoint \in AllEndpoints /\ IsEnvelope /\ ReqIs("method", JStr("initialize"))) =>
        /\ endpoint \in {"service", "/simple"} => (Answered /\ IsSuccess(response.body))
        /\ (Answered /\ IsSuccess(response.body)) =>
              /\ DOMAIN response.body.result =
                    {"protocolVersion", "capabilities", "serverInfo", "sessionId"}
              /\ response.body.result.sessionId \in SessionIds
              /\ [response.body.result EXCEPT !.sessionId = ""] =
                    [protocolVersion |-> "2024-11-05",
                     capabilities |-> [tools |-> <<>>],
                     serverInfo |-> [name |-> "talebook-mcp", version |-> "1.0.0"],
                     sessionId |-> ""]

\* C16, witness: the dispatcher answered an initialize request that carries
\* no params with a result, after another exchange.
C16_Witness ==
    /\ endpoint = "service"
    /\ IsEnvelope
    /\ ReqIs("method", JStr("initialize"))
    /\ ~ReqHas("params")
    /\ IsSuccess(response.body)
    /\ wsState = "closed"

\* C17: the dispatcher keeps nothing between calls: tools/list and
\* tools/call for get_books_count succeed whatever was served before (no
\* initialize is needed), and a request that equals the first request since
\* startup gets the envelope the first one got, session identifiers aside.
C17_Stateless ==
    (endpoint = "service") =>
        /\ request = first.req => StripSession(response) = StripSession(first.resp)
        /\ (IsEnvelope /\ ReqIs("method", JStr("tools/list"))) =>
              (Answered /\ IsSuccess(response.body))
        /\ (IsEnvelope /\ ReqIs("method", JStr("tools/call"))
                /\ ReqParamsName("get_books_count")) =>
              (Answered /\ IsSuccess(response.body))

\* C17, witness: the first request since startup was a tools/call that got
\* its result with no initialize before it, and after a list-tools result in
\* between the dispatcher served a tools/call again.
C17_Witness ==
    /\ endpoint = "service"
    /\ first.req.raw = "json"
    /\ first.req.v.t = "obj"
    /\ DictGet(first.req.v, "method") = JStr("tools/call")
    /\ IsSuccess(first.resp.body)
    /\ firstTools.count = 1
    /\ request = first.req
    /\ IsSuccess(response.body)

\* C18: every list-tools result of the dispatcher holds the tool collection
\* of the first list-tools result since startup, in the same order, whatever
\* was served in between.
C18_ToolsNeverChange ==
    (endpoint = "service" /\ Answered /\ IsSuccess(response.body)
        /\ "tools" \in DOMAIN response.body.result) =>
        /\ firstTools.count >= 1
        /\ response.body.result.tools = firstTools.tools

\* C18, witness: a later list-tools result (not the first one), in a run that
\* began with a failing call-tool request.
C18_Witness ==
    /\ endpoint = "service"
    /\ IsErrorCode(first.resp.body, -32603)
    /\ firstTools.count = MaxListed
    /\ IsEnvelope
    /\ ReqIs("method", JStr("tools/list"))
    /\ IsSuccess(response.body)

\* C19: every body MCPService.handle_request or a transport endpoint answers
\* with has "jsonrpc" = "2.0" and exactly one of "result" and "error".
C19_ResultXorError ==
    (endpoint \in AllEndpoints /\ Answered) =>
        /\ IsJsonRpc(response.body)
        /\ ("result" \in DOMAIN response.body) # ("error" \in DOMAIN response.body)

-----------------------------------------------------------------------------
(* Claims C21 to C27 *)

\* the last request is a call of get_books_count that the endpoint hands to
\* the tool handler
ReachesHandler ==
    /\ IsEnvelope
    /\ ReqParamsName("get_books_count")
    /\ \/ endpoint = "service" /\ ReqIs("method", JStr("tools/call"))
       \/ endpoint \in TransportEndpoints /\ ReqMethodIn(CallNames)

\* C21: when the tool handler fails during a call-tool request, the caller
\* gets an error envelope with code -32603 that carries the failure message,
\* and never a success envelope whose result.content holds the error text.
C21_HandlerFailureIsError ==
    (endpoint \in AllEndpoints /\ ReachesHandler /\ toolFailure # "none") =>
        /\ Answered
        /\ IsErrorCode(response.body, -32603)
        /\ response.body.error.message \in
              {toolFailure, "Internal error: " \o toolFailure}

\* C22: requests served at the same time are independent: under every
\* interleaving each request gets the response it gets when served alone,
\* with its own id, and the module-level polling_queues is never modified.
C22_ConcurrentIndependent ==
    /\ polling_queues = <<>>
    /\ \A t \in Tasks :
          tasks[t].pc = "done" =>
              /\ \E sid \in SessionIds :
                    tasks[t].resp = Serve(tasks[t].ep, tasks[t].wire, sid)
              /\ (/\ tasks[t].resp.kind \in {"return", "http", "ws_send"}
                  /\ "id" \in DOMAIN tasks[t].resp.body) =>
                    tasks[t].resp.body.id = DictGet(tasks[t].wire.v, "id")

\* C22, witness: two requests with different ids are in flight on two
\* transports; the one that arrived first was overtaken, and the other has
\* its result with its own id while the first has read its body only.
C22_Witness ==
    /\ tasks[1].pc = "read"
    /\ tasks[1].ep = "/poll"
    /\ tasks[1].body.raw = "json"
    /\ DictGet(tasks[1].body.v, "id") = JNum(1)
    /\ tasks[2].pc = "done"
    /\ tasks[2].ep = "/ws"
    /\ tasks[2].resp.kind = "ws_send"
    /\ IsSuccess(tasks[2].resp.body)
    /\ tasks[2].resp.body.id = JStr("a")

\* the last request is handed to the call-tool branch of its endpoint
ReachesCallBranch ==
    /\ IsEnvelope
    /\ \/ endpoint = "service" /\ ReqIs("method", JStr("tools/call"))
       \/ endpoint \in TransportEndpoints /\ ReqMethodIn(CallNames)

\* C23: a call-tool request with no params, or whose params map has no
\* "name" member, gets error -32601 with an "Unknown tool" message and the
\* id of the request; it neither raises nor gets -32603.
C23_MissingNameIsUnknownTool ==
    (/\ endpoint \in AllEndpoints
     /\ ReachesCallBranch
     /\ \/ ~ReqHas("params")
        \/ /\ request.v.o["params"].t = "obj"
           /\ "name" \notin DOMAIN request.v.o["params"].o) =>
        /\ Answered
        /\ IsErrorCode(response.body, -32601)
        /\ response.body.error.message = "Unknown tool: None"
        /\ "id" \in DOMAIN response.body
        /\ response.body.id = DictGet(request.v, "id")

\* C23, witness: the dispatcher answered a tools/call request that has an id
\* and no params member with "Unknown tool".
C23_Witness ==
    /\ endpoint = "service"
    /\ IsEnvelope
    /\ ReqIs("method", JStr("tools/call"))
    /\ ReqIs("id", JStr("a"))
    /\ ~ReqHas("params")
    /\ IsErrorCode(response.body, -32601)
    /\ response.body.id = JStr("a")

\* C24: when an exception is raised while MCPService.handle_request builds
\* an envelope, the message of the -32603 envelope it returns is the
\* exception's message, the text the -32603 envelope of a transport endpoint
\* (/simple) carries for the same request.
C24_ExceptionMessageVerbatim ==
    (endpoint = "service" /\ IsEnvelope /\ ReqHas("params")
        /\ Answered /\ IsErrorCode(response.body, -32603)) =>
        /\ response.body.error.message = AttributeError(request.v.o["params"]).msg
        /\ \A sid \in SessionIds :
              LET simple == Serve("/simple", request, sid)
              IN /\ IsErrorCode(simple.body, -32603)
                 /\ response.body.error.message = simple.body.error.message

\* C25: on one WebSocket connection every message read gets exactly one
\* response before the next message is read: the responses sent are as many
\* as the messages read (one fewer while a message is being processed), and
\* the k-th response carries the id of the k-th message.
C25_WsOneResponsePerMessage ==
    /\ ws.pc = "process" => Len(ws.sent) = Len(ws.recv) - 1
    /\ ws.pc # "process" => Len(ws.sent) = Len(ws.recv)
    /\ \A k \in 1..Len(ws.sent) :
          /\ k <= Len(ws.recv)
          /\ ws.recv[k].raw = "json"
          /\ "id" \in DOMAIN ws.sent[k]
          /\ ws.sent[k].id = DictGet(ws.recv[k].v, "id")

\* a list-tools request, and the names an endpoint lists in answer to it
ListRequest ==
    [raw |-> "json",
     v |-> JObj([jsonrpc |-> JStr("2.0"), id |-> JNum(1), method |-> JStr("tools/list")])]
ListedNames(ep) ==
    LET listed == Serve(ep, ListRequest, CHOOSE sid \in SessionIds : TRUE).body.result.tools
    IN {JStr(listed[i].name) : i \in 1..Len(listed)}

\* C26: the tools listed and the tools callable coincide: a call-tool
\* request for a name gets result.content if and only if the name is in the
\* result.tools the same endpoint gives to a list-tools request, and error
\* -32601 otherwise.
C26_ListedIffCallable ==
    (/\ endpoint \in AllEndpoints
     /\ ReachesCallBranch
     /\ ReqHas("params")
     /\ request.v.o["params"].t = "obj"
     /\ "name" \in DOMAIN request.v.o["params"].o) =>
        /\ Answered
        /\ IF request.v.o["params"].o["name"] \in ListedNames(endpoint)
           THEN IsSuccess(response.body) /\ "content" \in DOMAIN response.body.result
           ELSE IsErrorCode(response.body, -32601)

\* C26, witness: the dispatcher refused with -32601 a tools/call request for
\* a name it does not list.
C26_Witness ==
    /\ endpoint = "service"
    /\ IsEnvelope
    /\ ReqIs("method", JStr("tools/call"))
    /\ ReqParamsName("other_tool")
    /\ JStr("other_tool") \notin ListedNames("service")
    /\ JStr("get_books_count") \in ListedNames("service")
    /\ IsErrorCode(response.body, -32601)

\* C27: an empty body reaches method dispatch on no HTTP endpoint, and every
\* HTTP endpoint answers it as /true-stream does: with the JSON-RPC error
\* envelope of code -32700.
C27_EmptyBodySameEverywhere ==
    (endpoint \in HttpEndpoints /\ request.raw = "empty") =>
        /\ Answered
        /\ ~(IsSuccess(response.body) \/ IsErrorCode(response.body, -32601))
        /\ \A sid \in SessionIds :
              response.body = Serve("/true-stream", request, sid).body
        /\ IsErrorCode(response.body, -32700)

====
